---- MODULE Spec2Model ----
(***************************************************************************)
(* A model of the brainrot interpreter: the parser (bri/src/parse.rs), the  *)
(* jump resolver (bri/src/resolve.rs), the optimiser (src/optimise.rs) and  *)
(* the tape machine (bri/src/lib.rs).                                       *)
(*                                                                         *)
(* Instruction indices, jump targets and the data pointer are 0-based, as   *)
(* in the source; At(ops, k) reads the k-th instruction.                    *)
(***************************************************************************)
EXTENDS Integers, Sequences, FiniteSets, TLC

VARIABLES
    src,        \* the source text handed to run(): a sequence of characters
    prog,       \* the instruction sequence before the passes under study
    ops,        \* the instruction vector being transformed / executed
    stage,      \* where the pipeline stands
    err,        \* the panic that ended the pipeline, if any: [kind, pos]
    cpu,        \* the Cpu struct: [pc, ram]
    i,          \* exec's instruction index
    input,      \* the whole content of stdin
    nread,      \* how many bytes of stdin have been consumed
    out,        \* the bytes written to stdout
    steps,      \* instructions dispatched so far (bounded by MaxSteps)
    debug_env,  \* the DEBUG_RANGE environment variable, and the build profile
    plain       \* the outcome of the unoptimised run (differential runs)

vars == <<src, prog, ops, stage, err, cpu, i, input, nread, out, steps,
          debug_env, plain>>

-----------------------------------------------------------------------------
(* Bounds of the model *)

MaxSrc == 4
MaxProg == 5
MaxPassLen == 5
MaxResolveLen == 6
MaxLateLen == 5
MaxFactor == 12
LongSteps == 600
MaxOptLen == 5
MaxLines == 3
MaxInspectSrc == 2
MaxSteps == 40

-----------------------------------------------------------------------------
(* Program constants *)

RAM_SIZE == 30000
DEBUG_RANGE == 5

-----------------------------------------------------------------------------
(* Instructions: enum Op.  An Op is [op |-> variant, n |-> payload]: the    *)
(* count of Increment/Decrement/MoveR/MoveL (1 for the single-step form),   *)
(* the target of JumpR/JumpL, and 0 for the variants without payload.       *)

Mk(c, n) == [op |-> c, n |-> n]

Set == Mk("Set", 0)
Get == Mk("Get", 0)
Debug == Mk("Debug", 0)
Clear == Mk("Clear", 0)
Empty == Mk("Empty", 0)

IsJumpR(o) == o.op = "JumpR"
IsJumpL(o) == o.op = "JumpL"

At(s, k) == s[k + 1]

SeqsUpTo(S, n) == UNION {[1..k -> S] : k \in 0..n}

NoErr == [kind |-> "none", pos |-> 0]
Panic(k, p) == [kind |-> k, pos |-> p]

-----------------------------------------------------------------------------
(* parse.rs: impl TryFrom<char> for Op.  The result is the sequence that    *)
(* flat_map sees: one instruction for Ok, none for Err.                     *)

(* try_from without the arm for '#' *)
try_from_no_debug(value) ==
    CASE value = "+" -> <<Mk("Increment", 1)>>
      [] value = "-" -> <<Mk("Decrement", 1)>>
      [] value = ">" -> <<Mk("MoveR", 1)>>
      [] value = "<" -> <<Mk("MoveL", 1)>>
      [] value = "[" -> <<Mk("JumpR", 0)>>
      [] value = "]" -> <<Mk("JumpL", 0)>>
      [] value = "," -> <<Set>>
      [] value = "." -> <<Get>>
      [] OTHER -> << >>

try_from(value) ==
    CASE value = "+" -> <<Mk("Increment", 1)>>
      [] value = "-" -> <<Mk("Decrement", 1)>>
      [] value = ">" -> <<Mk("MoveR", 1)>>
      [] value = "<" -> <<Mk("MoveL", 1)>>
      [] value = "[" -> <<Mk("JumpR", 0)>>
      [] value = "]" -> <<Mk("JumpL", 0)>>
      [] value = "," -> <<Set>>
      [] value = "." -> <<Get>>
      [] value = "#" -> <<Debug>>
      [] OTHER -> << >>

RECURSIVE flat_map_try_from(_)
flat_map_try_from(s) ==
    IF s = << >> THEN << >>
    ELSE try_from(Head(s)) \o flat_map_try_from(Tail(s))

-----------------------------------------------------------------------------
(* resolve.rs / parse.rs: resolve_jumps.  The stack holds the pending       *)
(* JumpR instructions; each carries its own index (the "*r = i" of the      *)
(* source), so the stack is modelled as the sequence of those indices.      *)
(* The result is [ops, err]: err.kind is "unmatched_close" or               *)
(* "unmatched_open" when the function panics, with the position the         *)
(* message reports.                                                         *)

SetN(s, k, v) == [s EXCEPT ![k + 1] = Mk(s[k + 1].op, v)]

RECURSIVE resolve_loop(_, _, _)
resolve_loop(s, k, stack) ==
    IF k >= Len(s) THEN
        IF stack # << >>
        THEN [ops |-> s, err |-> Panic("unmatched_open", At(s, stack[Len(stack)]).n + 1)]
        ELSE [ops |-> s, err |-> NoErr]
    ELSE IF IsJumpR(At(s, k)) THEN
        resolve_loop(SetN(s, k, k), k + 1, Append(stack, k))
    ELSE IF IsJumpL(At(s, k)) THEN
        IF stack = << >>
        THEN [ops |-> s, err |-> Panic("unmatched_close", k + 1)]
        ELSE LET r == stack[Len(stack)]
                 rv == At(s, r).n
             IN resolve_loop(SetN(SetN(s, r, k + 1), k, rv + 1), k + 1,
                             SubSeq(stack, 1, Len(stack) - 1))
    ELSE resolve_loop(s, k + 1, stack)

(* resolve_jumps with the open bracket's target set to i instead of i + 1 *)
resolve_jumps_target_off(s) ==
    LET r == resolve_loop(s, 0, << >>)
    IN [r EXCEPT !.ops = [k \in 1..Len(r.ops) |->
                            IF IsJumpR(r.ops[k]) THEN Mk("JumpR", r.ops[k].n - 1)
                            ELSE r.ops[k]]]

(* resolve_jumps without the final check of the stack *)
resolve_jumps_no_final_check(s) ==
    LET r == resolve_loop(s, 0, << >>)
    IN IF r.err.kind = "unmatched_open" THEN [r EXCEPT !.err = NoErr] ELSE r

resolve_jumps(s) == resolve_loop(s, 0, << >>)

-----------------------------------------------------------------------------
(* parse.rs: Parser::parse *)

parse(s) == resolve_jumps(flat_map_try_from(s))

-----------------------------------------------------------------------------
(* lib.rs: the tape.  ram is [u8; RAM_SIZE], all zero at construction; the  *)
(* model keeps the non-zero cells only (a function from their indices),     *)
(* every other index of 0..RAM_SIZE-1 holding 0.                            *)

ZeroRam == [p \in {} |-> 0]

Read(ram, p) == IF p \in DOMAIN ram THEN ram[p] ELSE 0

Write(ram, p, v) ==
    IF v = 0 THEN [q \in (DOMAIN ram) \ {p} |-> ram[q]]
    ELSE [q \in (DOMAIN ram) \cup {p} |-> IF q = p THEN v ELSE ram[q]]

(* lib.rs: impl Default for Cpu *)
CpuDefault == [pc |-> 0, ram |-> ZeroRam]

(* u8::saturating_add in the place of wrapping_add *)
saturating_add(a, b) == IF a + b > 255 THEN 255 ELSE a + b

(* u8::wrapping_add / u8::wrapping_sub *)
wrapping_add(a, b) == (a + b) % 256
wrapping_sub(a, b) == (a - b + 256) % 256

-----------------------------------------------------------------------------
(* lib.rs: Op::Get prints the cell "as char": a char below 128 is one byte, *)
(* a char in 128..255 is the two bytes of its UTF-8 encoding.               *)

char_bytes(v) ==
    IF v < 128 THEN <<v>> ELSE <<192 + (v \div 64), 128 + (v % 64)>>

(* u8::to_string: the decimal digits, as ASCII bytes *)
RECURSIVE to_string(_)
to_string(v) ==
    IF v < 10 THEN <<48 + v>> ELSE to_string(v \div 10) \o <<48 + (v % 10)>>

(* str::parse::<usize>: an optional "+", then one or more decimal digits *)
DigitChars == <<"0", "1", "2", "3", "4", "5", "6", "7", "8", "9">>
IsDigit(c) == \E d \in 1..10 : DigitChars[d] = c
DigitVal(c) == (CHOOSE d \in 1..10 : DigitChars[d] = c) - 1

(* A usize is 64 bits wide.  Where its full range matters (the window     *)
(* half-width, which comes from the environment) it is held as             *)
(* USIZE_LIMBS digits of base USIZE_BASE, lowest first.                    *)
USIZE_BASE == 65536
USIZE_LIMBS == 4

RECURSIVE usize_limbs(_, _)
usize_limbs(n, k) ==
    IF k = 0 THEN << >> ELSE <<n % USIZE_BASE>> \o usize_limbs(n \div USIZE_BASE, k - 1)

(* the usize of a number below 2^31 *)
usize(n) == usize_limbs(n, USIZE_LIMBS)

(* the number of a usize below 2^31 *)
usize_small(u) == u[1] + USIZE_BASE * u[2]

(* s[k] = fa * a[k] + b[k] + carry, from limb k upwards: the limbs of the  *)
(* result modulo 2^64 and whether the true result needs more than 64 bits  *)
RECURSIVE limbs_mul_add(_, _, _, _, _)
limbs_mul_add(fa, a, b, k, carry) ==
    IF k > USIZE_LIMBS THEN [v |-> << >>, overflow |-> carry # 0]
    ELSE LET s == fa * a[k] + b[k] + carry
             rest == limbs_mul_add(fa, a, b, k + 1, s \div USIZE_BASE)
         IN [v |-> <<s % USIZE_BASE>> \o rest.v, overflow |-> rest.overflow]

(* usize::overflowing_add *)
overflowing_add(a, b) == limbs_mul_add(1, a, b, 1, 0)

(* a <= b *)
RECURSIVE usize_le_from(_, _, _)
usize_le_from(a, b, k) ==
    IF k = 0 THEN TRUE
    ELSE IF a[k] < b[k] THEN TRUE
    ELSE IF a[k] > b[k] THEN FALSE
    ELSE usize_le_from(a, b, k - 1)

usize_le(a, b) == usize_le_from(a, b, USIZE_LIMBS)

(* the digits of s on top of acc: acc * 10 + digit, an error once the      *)
(* value no longer fits a usize                                            *)
RECURSIVE digits_value(_, _)
digits_value(s, acc) ==
    IF s = << >> THEN [ok |-> TRUE, v |-> acc]
    ELSE LET r == limbs_mul_add(10, acc, usize(DigitVal(Head(s))), 1, 0)
         IN IF r.overflow THEN [ok |-> FALSE, v |-> usize(0)]
            ELSE digits_value(Tail(s), r.v)

parse_usize(s) ==
    LET body == IF s # << >> /\ Head(s) = "+" THEN Tail(s) ELSE s
    IN IF body # << >> /\ \A k \in 1..Len(body) : IsDigit(body[k])
       THEN digits_value(body, usize(0))
       ELSE [ok |-> FALSE, v |-> usize(0)]

(* lib.rs 76-78: the window half-width, from the environment *)
debug_range(env) ==
    IF env.set
    THEN LET r == parse_usize(env.val) IN IF r.ok THEN r.v ELSE usize(DEBUG_RANGE)
    ELSE usize(DEBUG_RANGE)

(* u.min(n) for a usize u and a number n below 2^31 *)
Min(u, n) == IF usize_le(u, usize(n)) THEN usize_small(u) ELSE n

(* a.saturating_sub(b) for a number a below 2^31 and a usize b *)
saturating_sub(a, b) == IF usize_le(usize(a), b) THEN 0 ELSE a - usize_small(b)

(* lib.rs 81: self.pc + debug_range + 1, as overflowing additions *)
window_end_sum(pc, range) ==
    LET s1 == overflowing_add(usize(pc), range)
        s2 == overflowing_add(s1.v, usize(1))
    IN [v |-> s2.v, overflow |-> s1.overflow \/ s2.overflow]

RECURSIVE join_cells(_, _, _)
join_cells(ram, lo, hi) ==
    IF lo >= hi THEN << >>
    ELSE to_string(Read(ram, lo))
         \o (IF lo + 1 < hi THEN <<32>> ELSE << >>)
         \o join_cells(ram, lo + 1, hi)

RECURSIVE pad_width(_, _, _)
pad_width(ram, lo, hi) ==
    IF lo >= hi THEN 0
    ELSE Len(to_string(Read(ram, lo))) + 1 + pad_width(ram, lo + 1, hi)

Spaces(n) == [k \in 1..n |-> 32]
Ellipsis == <<46, 46, 46>>

(* lib.rs 75-106: the two lines Op::Debug prints, as bytes *)
debug_text(c, range) ==
    LET start == saturating_sub(c.pc, range)
        end == Min(window_end_sum(c.pc, range).v, RAM_SIZE)
    IN <<77, 69, 77, 58, 32, 91>>
       \o (IF start > 0 THEN Ellipsis ELSE << >>)
       \o join_cells(c.ram, start, end)
       \o (IF end < RAM_SIZE THEN Ellipsis ELSE << >>)
       \o <<93, 10>>
       \o Spaces(5 + (IF start > 0 THEN 3 ELSE 0) + 1
                 + pad_width(c.ram, saturating_sub(c.pc, range), c.pc))
       \o <<94, 10>>

-----------------------------------------------------------------------------
(* lib.rs: Cpu::exec, one iteration of its while loop on the instruction    *)
(* `op`.  m is the machine and its surroundings: [cpu, i, nread, out,       *)
(* halt]; inp is the content of stdin, env the DEBUG_RANGE variable.        *)
(* halt.kind names the panic that ended the run.                            *)

Advance(m) == [m EXCEPT !.i = m.i + 1]
Store(m, v) == [m EXCEPT !.cpu.ram = Write(m.cpu.ram, m.cpu.pc, v)]
Cell(m) == Read(m.cpu.ram, m.cpu.pc)

exec_Increment(m) == Advance(Store(m, wrapping_add(Cell(m), 1)))

exec_Decrement(m) == Advance(Store(m, wrapping_sub(Cell(m), 1)))

(* exec_MoveR with the bound tested one cell too late *)
exec_MoveR_late_check(m) ==
    LET moved == [m EXCEPT !.cpu.pc = m.cpu.pc + 1]
    IN IF moved.cpu.pc > RAM_SIZE
       THEN [moved EXCEPT !.halt = Panic("move_past_last_cell", 0)]
       ELSE Advance(moved)

exec_MoveR(m) ==
    LET moved == [m EXCEPT !.cpu.pc = m.cpu.pc + 1]
    IN IF moved.cpu.pc = RAM_SIZE
       THEN [moved EXCEPT !.halt = Panic("move_past_last_cell", 0)]
       ELSE Advance(moved)

exec_MoveL(m) ==
    IF m.cpu.pc = 0
    THEN [m EXCEPT !.halt = Panic("move_behind_first_cell", 0)]
    ELSE Advance([m EXCEPT !.cpu.pc = m.cpu.pc - 1])

(* a JumpR that would jump forward on a non-zero cell *)
exec_JumpR_on_nonzero(op, m) == IF Cell(m) # 0 THEN [m EXCEPT !.i = op.n] ELSE Advance(m)

exec_JumpR(op, m) == IF Cell(m) = 0 THEN [m EXCEPT !.i = op.n] ELSE Advance(m)

(* a JumpL that would jump back on a zero cell *)
exec_JumpL_on_zero(op, m) == IF Cell(m) = 0 THEN [m EXCEPT !.i = op.n] ELSE Advance(m)

exec_JumpL(op, m) == IF Cell(m) # 0 THEN [m EXCEPT !.i = op.n] ELSE Advance(m)

(* Stdin::read into a one-byte buffer that starts as [0]: at end of input   *)
(* read returns Ok(0) and leaves the buffer alone, so expect does not fire. *)
exec_Set(m, inp) ==
    IF m.nread < Len(inp)
    THEN Advance([Store(m, inp[m.nread + 1]) EXCEPT !.nread = m.nread + 1])
    ELSE Advance(Store(m, 0))

exec_Get(m) == Advance([m EXCEPT !.out = m.out \o char_bytes(Cell(m))])

(* The sum of lib.rs 81 can exceed a usize: a build with overflow checks   *)
(* (the debug profile) panics there, before anything is printed; a build   *)
(* without them (the release profile) goes on with the wrapped sum.        *)
exec_Debug(m, env) ==
    IF window_end_sum(m.cpu.pc, debug_range(env)).overflow /\ env.overflow_checks
    THEN [m EXCEPT !.halt = Panic("add_overflow", 0)]
    ELSE Advance([m EXCEPT !.out = m.out \o debug_text(m.cpu, debug_range(env))])

exec_op(op, m, inp, env) ==
    CASE op = Mk("Increment", 1) -> exec_Increment(m)
      [] op = Mk("Decrement", 1) -> exec_Decrement(m)
      [] op = Mk("MoveR", 1) -> exec_MoveR(m)
      [] op = Mk("MoveL", 1) -> exec_MoveL(m)
      [] op.op = "JumpR" -> exec_JumpR(op, m)
      [] op.op = "JumpL" -> exec_JumpL(op, m)
      [] op = Set -> exec_Set(m, inp)
      [] op = Get -> exec_Get(m)
      [] op = Debug -> exec_Debug(m, env)

(* The variants lib.rs knows *)
IsUnitOp(op) ==
    \/ op.op \in {"Increment", "Decrement", "MoveR", "MoveL"} /\ op.n = 1
    \/ op.op \in {"JumpR", "JumpL", "Set", "Get", "Debug"}

-----------------------------------------------------------------------------
(* The executor of the counted instructions (Increment(n), MoveR(n), ...,   *)
(* Clear, Empty) that optimise produces.  lib.rs has the single-step        *)
(* variants only; these cases follow the dispatch semantics of the          *)
(* specification, section 4.4.                                              *)

exec_counted(op, m) ==
    CASE op.op = "Increment" -> Advance(Store(m, wrapping_add(Cell(m), op.n % 256)))
      [] op.op = "Decrement" -> Advance(Store(m, wrapping_sub(Cell(m), op.n % 256)))
      [] op.op = "MoveR" ->
            IF m.cpu.pc + op.n >= RAM_SIZE
            THEN [m EXCEPT !.halt = Panic("move_past_last_cell", 0)]
            ELSE Advance([m EXCEPT !.cpu.pc = m.cpu.pc + op.n])
      [] op.op = "MoveL" ->
            IF m.cpu.pc < op.n
            THEN [m EXCEPT !.halt = Panic("move_behind_first_cell", 0)]
            ELSE Advance([m EXCEPT !.cpu.pc = m.cpu.pc - op.n])
      [] op = Clear -> Advance(Store(m, 0))
      [] op = Empty -> [m EXCEPT !.halt = Panic("empty_op_reached", 0)]

exec_any(op, m, inp, env) ==
    IF IsUnitOp(op) THEN exec_op(op, m, inp, env) ELSE exec_counted(op, m)

-----------------------------------------------------------------------------
(* src/optimise.rs: fold_consecutive_ops(left, right, ops).  left and right *)
(* are the names of the two constructors.                                   *)

(* the inner "accumulate consecutive ops" loop: <<i, net>> when it ends *)
RECURSIVE fold_accumulate(_, _, _, _, _)
fold_accumulate(left, right, s, k, net) ==
    IF k < Len(s) THEN
        IF At(s, k) = Mk(left, 1) THEN fold_accumulate(left, right, s, k + 1, net - 1)
        ELSE IF At(s, k) = Mk(right, 1) THEN fold_accumulate(left, right, s, k + 1, net + 1)
        ELSE <<k, net>>
    ELSE <<k, net>>

(* fold_head with the two directions exchanged *)
fold_head_swapped(left, right, net) ==
    IF net < 0 THEN Mk(right, -net)
    ELSE IF net > 0 THEN Mk(left, net)
    ELSE Empty

fold_head(left, right, net) ==
    IF net < 0 THEN Mk(left, -net)
    ELSE IF net > 0 THEN Mk(right, net)
    ELSE Empty

RECURSIVE fold_loop(_, _, _, _)
fold_loop(left, right, s, k) ==
    IF k < Len(s) THEN
        IF At(s, k) = Mk(left, 1) \/ At(s, k) = Mk(right, 1) THEN
            LET r == fold_accumulate(left, right, s, k, 0)
                start == k
                end == r[1]
                s2 == [j \in 1..Len(s) |->
                          IF j - 1 = start THEN fold_head(left, right, r[2])
                          ELSE IF start + 1 <= j - 1 /\ j - 1 < end THEN Empty
                          ELSE s[j]]
            IN fold_loop(left, right, s2, end)
        ELSE fold_loop(left, right, s, k + 1)
    ELSE s

fold_consecutive_ops(left, right, s) == fold_loop(left, right, s, 0)

-----------------------------------------------------------------------------
(* src/optimise.rs: rewrite_clear_loops *)

(* a pattern that would take an Increment body as well *)
clear_matches_any_arith(op1, op2, op3) ==
    IsJumpR(op1) /\ op2.op \in {"Decrement", "Increment"} /\ IsJumpL(op3)

clear_matches(op1, op2, op3) ==
    IsJumpR(op1) /\ op2.op = "Decrement" /\ IsJumpL(op3)

RECURSIVE clear_loop(_, _)
clear_loop(s, k) ==
    IF k + 3 <= Len(s) THEN
        IF clear_matches(At(s, k), At(s, k + 1), At(s, k + 2))
        THEN clear_loop([s EXCEPT ![k + 1] = Clear, ![k + 2] = Empty, ![k + 3] = Empty],
                        k + 3)
        ELSE clear_loop(s, k + 1)
    ELSE s

rewrite_clear_loops(s) == clear_loop(s, 0)

-----------------------------------------------------------------------------
(* src/optimise.rs: remove_dead_loops.  The result is [ops, err]: a slice   *)
(* range or an index past the end of the vector panics.                     *)

(* iter().take_while(|op| !JumpL).count() over s[from..] *)
RECURSIVE count_until_JumpL(_, _)
count_until_JumpL(s, from) ==
    IF from < Len(s) /\ ~IsJumpL(At(s, from))
    THEN 1 + count_until_JumpL(s, from + 1)
    ELSE 0

(* s[lo..hi].fill(Op::Empty), for lo <= hi <= len *)
Fill(s, lo, hi) == [j \in 1..Len(s) |-> IF lo <= j - 1 /\ j - 1 < hi THEN Empty ELSE s[j]]

(* the "while let Some([op1, op2])" loop: <<ops, loop_ends>> when it ends *)
RECURSIVE dead_scan(_, _, _)
dead_scan(s, k, loop_ends) ==
    IF k + 2 <= Len(s) THEN
        IF IsJumpL(At(s, k)) /\ IsJumpR(At(s, k + 1)) THEN
            LET n == count_until_JumpL(s, k + 1)
            IN dead_scan(Fill(s, k + 1, k + 1 + n), k + 1 + n, Append(loop_ends, k + 1 + n))
        ELSE dead_scan(s, k + 1, loop_ends)
    ELSE <<s, loop_ends>>

(* the final "for i in loop_ends" loop *)
RECURSIVE erase_loop_ends(_, _)
erase_loop_ends(s, loop_ends) ==
    IF loop_ends = << >> THEN [ops |-> s, err |-> NoErr]
    ELSE IF Head(loop_ends) >= Len(s)
    THEN [ops |-> s, err |-> Panic("index_out_of_bounds", Head(loop_ends))]
    ELSE erase_loop_ends([s EXCEPT ![Head(loop_ends) + 1] = Empty], Tail(loop_ends))

dead_first_loop(s) ==
    IF Len(s) > 0 /\ IsJumpR(At(s, 0)) THEN
        LET n == count_until_JumpL(s, 0)
        IN IF n + 1 > Len(s)
           THEN [ops |-> s, err |-> Panic("range_end_out_of_range", n + 1)]
           ELSE [ops |-> Fill(s, 0, n + 1), err |-> NoErr]
    ELSE [ops |-> s, err |-> NoErr]

remove_dead_loops(s) ==
    LET first == dead_first_loop(s)
    IN IF first.err # NoErr THEN first
       ELSE LET scanned == dead_scan(first.ops, 0, << >>)
            IN erase_loop_ends(scanned[1], scanned[2])

-----------------------------------------------------------------------------
(* src/optimise.rs: remove_trailing_ops *)

IsOutput(o) == o = Get \/ o = Debug

(* remove_trailing_ops that would cut right after the last Get or Debug *)
remove_trailing_ops_cut_at_output(s) ==
    IF ~\E k \in 0..Len(s) - 1 : IsOutput(At(s, k)) THEN s
    ELSE LET last_op_idx == CHOOSE k \in 0..Len(s) - 1 :
                                /\ IsOutput(At(s, k))
                                /\ \A j \in k + 1..Len(s) - 1 : ~IsOutput(At(s, j))
         IN Fill(s, last_op_idx + 1, Len(s))

remove_trailing_ops(s) ==
    IF ~\E k \in 0..Len(s) - 1 : IsOutput(At(s, k)) THEN s
    ELSE LET last_op_idx == CHOOSE k \in 0..Len(s) - 1 :
                                /\ IsOutput(At(s, k))
                                /\ \A j \in k + 1..Len(s) - 1 : ~IsOutput(At(s, j))
         IN IF last_op_idx + 1 = Len(s) THEN s
            ELSE LET n == count_until_JumpL(s, last_op_idx + 1)
                     end == IF last_op_idx + 1 + n < Len(s)
                            THEN last_op_idx + 1 + n
                            ELSE last_op_idx
                 IN Fill(s, end + 1, Len(s))

-----------------------------------------------------------------------------
(* src/optimise.rs: remove_empty_ops *)

(* a retain that would stop at the first Empty *)
RECURSIVE remove_empty_ops_prefix(_)
remove_empty_ops_prefix(s) ==
    IF s = << >> \/ Head(s) = Empty THEN << >>
    ELSE <<Head(s)>> \o remove_empty_ops_prefix(Tail(s))

remove_empty_ops(s) == SelectSeq(s, LAMBDA o : o # Empty)

-----------------------------------------------------------------------------
(* src/optimise.rs: optimise, pass by pass.  Each pass yields [ops, err].   *)

Pure(s) == [ops |-> s, err |-> NoErr]

PassNames ==
    <<"fold_moves", "fold_arith", "clear_loops", "dead_loops", "trailing_ops",
      "empty_ops">>

run_pass(name, s) ==
    CASE name = "fold_moves" -> Pure(fold_consecutive_ops("MoveL", "MoveR", s))
      [] name = "fold_arith" -> Pure(fold_consecutive_ops("Decrement", "Increment", s))
      [] name = "clear_loops" -> Pure(rewrite_clear_loops(s))
      [] name = "dead_loops" -> remove_dead_loops(s)
      [] name = "trailing_ops" -> Pure(remove_trailing_ops(s))
      [] name = "empty_ops" -> Pure(remove_empty_ops(s))

(* the stage that follows a pass of optimise; main then resolves the jumps *)
stage_after(name) ==
    CASE name = "fold_moves" -> "fold_arith"
      [] name = "fold_arith" -> "clear_loops"
      [] name = "clear_loops" -> "dead_loops"
      [] name = "dead_loops" -> "trailing_ops"
      [] name = "trailing_ops" -> "empty_ops"
      [] name = "empty_ops" -> "resolve"

-----------------------------------------------------------------------------
(* The inputs the specifications draw from *)

Chars == {"+", "-", ">", "<", "[", "]", ",", ".", "#", "a"}

(* what the parser emits: the single-step instructions *)
UnitInstrs ==
    {Mk("Increment", 1), Mk("Decrement", 1), Mk("MoveR", 1), Mk("MoveL", 1),
     Mk("JumpR", 0), Mk("JumpL", 0), Set, Get, Debug}

(* instruction vectors handed to a single optimiser pass *)
PassInstrs ==
    {Mk("MoveR", 1), Mk("MoveL", 1), Mk("Increment", 1), Mk("Decrement", 1),
     Mk("Decrement", 2), Mk("JumpR", 0), Mk("JumpL", 0), Get}

(* instruction vectors as the passes after the folds meet them *)
LateInstrs ==
    {Mk("JumpR", 0), Mk("JumpL", 0), Mk("Decrement", 1), Get, Debug, Empty}

(* the source text of a "+", then "[>", b "+", "<-]>." *)
MulSrc(a, b) ==
    [k \in 1..a |-> "+"] \o <<"[", ">">> \o [k \in 1..b |-> "+"]
        \o <<"<", "-", "]", ">", ".">>

(* parser output handed to optimise: single-step instructions only *)
OptInstrs ==
    {Mk("Increment", 1), Mk("Decrement", 1), Mk("MoveR", 1), Mk("JumpR", 0),
     Mk("JumpL", 0), Get}

(* stdin of the REPL, as bytes.  The texts a user types: the reset command, *)
(* single instructions (of which "<" and "[" end the process with a panic  *)
(* on a fresh machine) and the empty line.                                  *)
ResetText == <<92, 114, 101, 115, 101, 116>>

ReplTexts == {ResetText, <<43>>, <<62>>, <<60>>, <<91>>, <<44>>, <<46>>, << >>}

(* the lines of a session, each ended by the newline of the Enter key *)
RECURSIVE Sessions(_)
Sessions(n) ==
    IF n = 0 THEN {<< >>}
    ELSE LET shorter == Sessions(n - 1)
         IN shorter \cup {s \o t \o <<10>> : s \in shorter, t \in ReplTexts}

(* the same, or with end of input (Ctrl-D) right after the last text *)
ReplStdins ==
    Sessions(MaxLines)
        \cup {s \o t : s \in Sessions(MaxLines - 1), t \in ReplTexts}

(* the characters of the bytes a session holds *)
CharOf(b) ==
    CASE b = 43 -> "+"  [] b = 45 -> "-"  [] b = 62 -> ">"  [] b = 60 -> "<"
      [] b = 91 -> "["  [] b = 93 -> "]"  [] b = 44 -> ","  [] b = 46 -> "."
      [] b = 35 -> "#"  [] b = 10 -> "\n" [] b = 92 -> "\\"
      [] b = 114 -> "r" [] b = 101 -> "e" [] b = 115 -> "s" [] b = 116 -> "t"

(* instruction vectors handed to resolve_jumps *)
ResolveInstrs == {Mk("JumpR", 0), Mk("JumpL", 0), Mk("Increment", 1), Get}

Inputs == {<< >>, <<65>>}

(* The machine a program starts on: fresh, or (in the REPL, which keeps one *)
(* Cpu across lines) left by earlier lines at the last cell of the tape.    *)
CpuStarts ==
    {CpuDefault, [pc |-> RAM_SIZE - 1, ram |-> (RAM_SIZE - 1 :> 255)]}

(* machines the clear loop starts on: the current cell holds any byte, at   *)
(* either end of the tape, next to a cell that is not zero                 *)
ClearStarts ==
    {[pc |-> p, ram |-> Write((1 :> 7) @@ (RAM_SIZE - 2 :> 9), p, v)] :
        p \in {0, RAM_SIZE - 1}, v \in 0..255}

(* DEBUG_RANGE is not set: the half-width is 5 and no sum overflows, so    *)
(* the build profile makes no difference                                   *)
EnvUnset == [set |-> FALSE, val |-> << >>, overflow_checks |-> TRUE]

(* values of DEBUG_RANGE: small half-widths, texts that do not parse (the   *)
(* default is taken), the largest usize and the number after it            *)
UsizeMaxText ==
    <<"1", "8", "4", "4", "6", "7", "4", "4", "0", "7", "3", "7", "0", "9",
      "5", "5", "1", "6", "1", "5">>

RangeTexts ==
    {<<"0">>, <<"2">>, <<"+", "1">>, <<"x">>, << >>, UsizeMaxText,
     SubSeq(UsizeMaxText, 1, 19) \o <<"6">>}

(* the environment of a run: DEBUG_RANGE, and the build profile *)
InspectEnvs ==
    {EnvUnset}
        \cup {[set |-> TRUE, val |-> t, overflow_checks |-> c] :
                 t \in RangeTexts, c \in BOOLEAN}

(* machines left by earlier code: the pointer at, near and away from both  *)
(* ends of the tape, on a cell of three digits, both end cells non-zero    *)
InspectStarts ==
    {[pc |-> p, ram |-> Write((0 :> 7) @@ (RAM_SIZE - 1 :> 13), p, 200)] :
        p \in {0, 1, 2, 5, 6, 100, RAM_SIZE - 7, RAM_SIZE - 6, RAM_SIZE - 3,
               RAM_SIZE - 2, RAM_SIZE - 1}}

(* Without overflow checks the largest half-width makes the window the     *)
(* cells before the pointer: the model follows it where those are few.     *)
InspectConfigs ==
    {c \in InspectStarts \X InspectEnvs :
        (c[2].val = UsizeMaxText /\ ~c[2].overflow_checks) => c[1].pc <= 6}

NoPlain == [status |-> "pending", out |-> << >>, nread |-> 0]

(* bracket balance of an instruction vector *)
RECURSIVE Depth(_, _)
Depth(s, k) ==
    IF k = 0 THEN 0
    ELSE Depth(s, k - 1)
         + (IF IsJumpR(s[k]) THEN 1 ELSE IF IsJumpL(s[k]) THEN -1 ELSE 0)

Balanced(s) == Depth(s, Len(s)) = 0 /\ \A k \in 1..Len(s) : Depth(s, k) >= 0

-----------------------------------------------------------------------------
(* Actions *)

Machine == [cpu |-> cpu, i |-> i, nread |-> nread, out |-> out, halt |-> NoErr]

Landed(m) ==
    /\ cpu' = m.cpu
    /\ i' = m.i
    /\ nread' = m.nread
    /\ out' = m.out
    /\ steps' = steps + 1
    /\ IF m.halt # NoErr
       THEN stage' = "failed" /\ err' = m.halt
       ELSE UNCHANGED <<stage, err>>
    /\ UNCHANGED <<src, prog, ops, input, debug_env, plain>>

(* lib.rs: run(src, cpu), up to the call of exec *)
Run ==
    /\ stage = "parse"
    /\ LET r == parse(src)
       IN IF r.err # NoErr
          THEN stage' = "failed" /\ err' = r.err /\ UNCHANGED <<ops, prog>>
          ELSE stage' = "exec" /\ ops' = r.ops /\ prog' = r.ops /\ UNCHANGED err
    /\ i' = 0
    /\ UNCHANGED <<src, cpu, input, nread, out, steps, debug_env, plain>>

(* lib.rs: Cpu::exec, one iteration of the while loop *)
Exec ==
    /\ stage = "exec"
    /\ i < Len(ops)
    /\ steps < MaxSteps
    /\ Landed(exec_op(At(ops, i), Machine, input, debug_env))

(* Cpu::exec, one iteration, followed for up to LongSteps instructions *)
ExecLong ==
    /\ stage = "exec"
    /\ i < Len(ops)
    /\ steps < LongSteps
    /\ Landed(exec_op(At(ops, i), Machine, input, debug_env))

(* one iteration of the executor on a vector that may hold counted ops *)
ExecAny ==
    /\ stage = "exec"
    /\ i < Len(ops)
    /\ steps < MaxSteps
    /\ Landed(exec_any(At(ops, i), Machine, input, debug_env))

(* lib.rs: Cpu::exec, the while condition fails *)
ExecExit ==
    /\ stage = "exec"
    /\ i >= Len(ops)
    /\ stage' = "done"
    /\ UNCHANGED <<src, prog, ops, err, cpu, i, input, nread, out, steps,
                   debug_env, plain>>

(* the model stops following a run after MaxSteps instructions *)
ExecCutoff ==
    /\ stage = "exec"
    /\ i < Len(ops)
    /\ steps >= MaxSteps
    /\ stage' = "cutoff"
    /\ UNCHANGED <<src, prog, ops, err, cpu, i, input, nread, out, steps,
                   debug_env, plain>>

(* resolve_jumps, then execution *)
Resolve ==
    /\ stage = "resolve"
    /\ LET r == resolve_jumps(ops)
       IN IF r.err # NoErr
          THEN stage' = "failed" /\ err' = r.err /\ UNCHANGED ops
          ELSE stage' = "exec" /\ ops' = r.ops /\ UNCHANGED err
    /\ i' = 0
    /\ UNCHANGED <<src, prog, cpu, input, nread, out, steps, debug_env, plain>>

(* resolve_jumps alone *)
ResolveJumps ==
    /\ stage = "resolve"
    /\ LET r == resolve_jumps(ops)
       IN IF r.err # NoErr
          THEN stage' = "failed" /\ err' = r.err /\ UNCHANGED ops
          ELSE stage' = "resolved" /\ ops' = r.ops /\ UNCHANGED err
    /\ UNCHANGED <<src, prog, cpu, i, input, nread, out, steps, debug_env, plain>>

Outcome ==
    IF stage = "done" THEN "ok"
    ELSE IF stage = "cutoff" THEN "cutoff"
    ELSE err.kind

Ended == stage \in {"done", "failed", "cutoff"}

(* the unoptimised run has ended: keep its outcome and run the same program *)
(* again, optimised, on a fresh machine and the same input                  *)
StartOptimised ==
    /\ Ended
    /\ plain.status = "pending"
    /\ plain' = [status |-> Outcome, out |-> out, nread |-> nread]
    /\ ops' = prog
    /\ stage' = "fold_moves"
    /\ err' = NoErr
    /\ cpu' = CpuDefault
    /\ i' = 0
    /\ nread' = 0
    /\ out' = << >>
    /\ steps' = 0
    /\ UNCHANGED <<src, prog, input, debug_env>>

IsPass(name) == \E k \in 1..Len(PassNames) : PassNames[k] = name

(* optimise: its next pass *)
OptimisePass ==
    /\ IsPass(stage)
    /\ LET r == run_pass(stage, ops)
       IN IF r.err # NoErr
          THEN stage' = "failed" /\ err' = r.err /\ UNCHANGED ops
          ELSE stage' = stage_after(stage) /\ ops' = r.ops /\ UNCHANGED err
    /\ UNCHANGED <<src, prog, cpu, i, input, nread, out, steps, debug_env, plain>>

(* optimise: the six passes in order, stopping at a pass that panics *)
RECURSIVE run_passes(_, _)
run_passes(k, r) ==
    IF k > Len(PassNames) \/ r.err # NoErr THEN r
    ELSE run_passes(k + 1, run_pass(PassNames[k], r.ops))

optimise(s) == run_passes(1, Pure(s))

(* optimise applied on its own to the vector prog *)
ApplyOptimise ==
    /\ stage = "input"
    /\ LET r == optimise(prog)
       IN /\ stage' = "optimise"
          /\ ops' = r.ops
          /\ err' = r.err
    /\ UNCHANGED <<src, prog, cpu, i, input, nread, out, steps, debug_env, plain>>

(* a resolve that would resolve the jumps before dropping the Empty slots *)
resolve_before_compaction(s) ==
    LET folded == fold_consecutive_ops("Decrement", "Increment",
                      fold_consecutive_ops("MoveL", "MoveR", s))
        r == resolve_jumps(folded)
    IN [ops |-> remove_empty_ops(r.ops), err |-> r.err]

(* bri/src/resolve.rs: resolve *)
resolve(s) ==
    resolve_jumps(
        remove_empty_ops(
            fold_consecutive_ops("Decrement", "Increment",
                fold_consecutive_ops("MoveL", "MoveR", s))))

(* resolve applied to the vector prog *)
ApplyResolve ==
    /\ stage = "input"
    /\ LET r == resolve(prog)
       IN IF r.err # NoErr
          THEN stage' = "failed" /\ err' = r.err /\ UNCHANGED ops
          ELSE stage' = "resolved" /\ ops' = r.ops /\ UNCHANGED err
    /\ UNCHANGED <<src, prog, cpu, i, input, nread, out, steps, debug_env, plain>>

(* main.rs: BufRead::read_line.  The bytes from stdin position `from` up to *)
(* and including the next newline, or up to the end of input.               *)
RECURSIVE read_line(_, _)
read_line(inp, from) ==
    IF from >= Len(inp) THEN << >>
    ELSE IF inp[from + 1] = 10 THEN <<10>>
    ELSE <<inp[from + 1]>> \o read_line(inp, from + 1)

Prompt == <<62, 62, 62, 32>>

(* main.rs: run_repl, one turn of its loop up to the call of exec *)
ReplReadLine ==
    /\ stage = "prompt"
    /\ out' = out \o Prompt
    /\ LET line == read_line(input, nread)
           n == Len(line)
       IN /\ nread' = nread + n
          /\ IF n = 0 THEN
                 stage' = "exited" /\ UNCHANGED <<src, prog, ops, err, cpu>>
             ELSE IF line = ResetText THEN
                 /\ cpu' = CpuDefault
                 /\ UNCHANGED <<src, prog, ops, err, stage>>
             ELSE LET r == parse([k \in 1..n |-> CharOf(line[k])])
                  IN /\ src' = [k \in 1..n |-> CharOf(line[k])]
                     /\ cpu' = cpu
                     /\ IF r.err # NoErr
                        THEN stage' = "failed" /\ err' = r.err /\ UNCHANGED <<ops, prog>>
                        ELSE /\ stage' = "exec" /\ ops' = r.ops /\ prog' = r.ops
                             /\ UNCHANGED err
    /\ i' = 0
    /\ steps' = 0
    /\ UNCHANGED <<input, debug_env, plain>>

(* main.rs: run_repl, exec has returned: the newline, and the next turn *)
ReplLineDone ==
    /\ stage = "exec"
    /\ i >= Len(ops)
    /\ out' = out \o <<10>>
    /\ stage' = "prompt"
    /\ UNCHANGED <<src, prog, ops, err, cpu, i, input, nread, steps, debug_env, plain>>

(* one optimiser pass applied on its own to the vector prog *)
ApplyPass ==
    /\ stage = "input"
    /\ \E k \in 1..Len(PassNames) :
          LET r == run_pass(PassNames[k], prog)
          IN /\ stage' = PassNames[k]
             /\ ops' = r.ops
             /\ err' = r.err
    /\ UNCHANGED <<src, prog, cpu, i, input, nread, out, steps, debug_env, plain>>

-----------------------------------------------------------------------------
(* Specifications *)

InitRest ==
    /\ err = NoErr
    /\ i = 0
    /\ nread = 0
    /\ out = << >>
    /\ steps = 0
    /\ debug_env = EnvUnset
    /\ plain = NoPlain

(* lib.rs: run() on a source text *)
Init ==
    /\ src \in SeqsUpTo(Chars, MaxSrc)
    /\ prog = << >>
    /\ ops = << >>
    /\ stage = "parse"
    /\ cpu \in CpuStarts
    /\ input \in Inputs
    /\ InitRest

Next == Run \/ Exec \/ ExecExit \/ ExecCutoff

Spec == Init /\ [][Next]_vars

(* resolve_jumps on an arbitrary instruction vector *)
InitResolve ==
    /\ src = << >>
    /\ prog \in SeqsUpTo(ResolveInstrs, MaxResolveLen)
    /\ ops = prog
    /\ stage = "resolve"
    /\ cpu = CpuDefault
    /\ input = << >>
    /\ InitRest

NextResolve == ResolveJumps

SpecResolve == InitResolve /\ [][NextResolve]_vars

(* one optimiser pass on an arbitrary instruction vector *)
InitPass ==
    /\ src = << >>
    /\ prog \in SeqsUpTo(PassInstrs, MaxPassLen)
    /\ ops = prog
    /\ stage = "input"
    /\ cpu = CpuDefault
    /\ input = << >>
    /\ InitRest

NextPass == ApplyPass

SpecPass == InitPass /\ [][NextPass]_vars

(* a pass, or optimise, on a vector as the late passes meet it: with Empty *)
(* and Clear slots, and with both output instructions                      *)
InitLate ==
    /\ src = << >>
    /\ prog \in SeqsUpTo(LateInstrs, MaxLateLen)
    /\ ops = prog
    /\ stage = "input"
    /\ cpu = CpuDefault
    /\ input = << >>
    /\ InitRest

NextLate == ApplyPass \/ ApplyOptimise

SpecLate == InitLate /\ [][NextLate]_vars

(* lib.rs: run() of the multiplication program on a fresh machine *)
InitMul ==
    /\ src \in {MulSrc(a, b) : a \in 0..MaxFactor, b \in 0..MaxFactor}
    /\ prog = << >>
    /\ ops = << >>
    /\ stage = "parse"
    /\ cpu = CpuDefault
    /\ input = << >>
    /\ InitRest

NextMul == Run \/ ExecLong \/ ExecExit

SpecMul == InitMul /\ [][NextMul]_vars

(* lib.rs: run() of the clear loop on a machine left by earlier code *)
InitClear ==
    /\ src = <<"[", "-", "]">>
    /\ prog = << >>
    /\ ops = << >>
    /\ stage = "parse"
    /\ cpu \in ClearStarts
    /\ input = << >>
    /\ InitRest

NextClear == Run \/ ExecLong \/ ExecExit

SpecClear == InitClear /\ [][NextClear]_vars

(* exec is a sequential loop: while it can take a step, it does *)
SpecClearFair == SpecClear /\ WF_vars(NextClear)

(* bri/src/resolve.rs: resolve on an arbitrary instruction vector *)
NextFoldResolve == ApplyResolve

SpecFoldResolve == InitPass /\ [][NextFoldResolve]_vars

(* parser output, balanced or not, optimised, resolved and executed *)
InitOpt ==
    /\ src = << >>
    /\ prog \in SeqsUpTo(OptInstrs, MaxOptLen)
    /\ ops = prog
    /\ stage = "fold_moves"
    /\ cpu = CpuDefault
    /\ input = << >>
    /\ InitRest

NextOpt == OptimisePass \/ Resolve \/ ExecAny \/ ExecExit \/ ExecCutoff

SpecOpt == InitOpt /\ [][NextOpt]_vars

(* optimise, pass by pass, on parser output *)
NextOptimise == OptimisePass

SpecOptimise == InitOpt /\ [][NextOptimise]_vars

(* main.rs: run_repl on a session typed at the terminal *)
InitRepl ==
    /\ src = << >>
    /\ prog = << >>
    /\ ops = << >>
    /\ stage = "prompt"
    /\ cpu = CpuDefault
    /\ input \in ReplStdins
    /\ InitRest

NextRepl == ReplReadLine \/ Exec \/ ReplLineDone

SpecRepl == InitRepl /\ [][NextRepl]_vars

(* lib.rs: run() of a short program with "#" on a machine left by earlier  *)
(* code, under a DEBUG_RANGE and a build profile                           *)
InitInspect ==
    /\ src \in SeqsUpTo({"#", "+", ">", "<", ","}, MaxInspectSrc)
    /\ prog = << >>
    /\ ops = << >>
    /\ stage = "parse"
    /\ \E c \in InspectConfigs : cpu = c[1] /\ debug_env = c[2]
    /\ input \in Inputs
    /\ err = NoErr
    /\ i = 0
    /\ nread = 0
    /\ out = << >>
    /\ steps = 0
    /\ plain = NoPlain

NextInspect == Run \/ Exec \/ ExecExit

SpecInspect == InitInspect /\ [][NextInspect]_vars

(* a bracket-balanced program run unoptimised, then optimised *)
InitDiff ==
    /\ src = << >>
    /\ prog \in {s \in SeqsUpTo(UnitInstrs, MaxProg) : Balanced(s)}
    /\ ops = prog
    /\ stage = "resolve"
    /\ cpu = CpuDefault
    /\ input \in Inputs
    /\ InitRest

NextDiff ==
    Resolve \/ ExecAny \/ ExecExit \/ ExecCutoff \/ StartOptimised \/ OptimisePass

SpecDiff == InitDiff /\ [][NextDiff]_vars

-----------------------------------------------------------------------------
(* Claims C1, C2: optimisation against the unoptimised run (SpecDiff) *)

BothEnded ==
    /\ plain.status \notin {"pending", "cutoff"}
    /\ stage \in {"done", "failed"}

(* C1: for every bracket-balanced program of single-step instructions and   *)
(* every input, the optimised, resolved and executed program emits exactly  *)
(* the output bytes of the unoptimised run.                                 *)
C1_SameOutput == BothEnded => out = plain.out

(* C2: for every bracket-balanced program and every input, the optimised    *)
(* program ends the way the unoptimised one does (normally, or with the     *)
(* same fatal error) and has read the same number of input bytes.           *)
C2_SameEndingAndInput ==
    BothEnded => (Outcome = plain.status /\ nread = plain.nread)

-----------------------------------------------------------------------------
(* Claims C3, C4: resolve_jumps (SpecResolve) *)

(* the matching close bracket (1-based) of the open bracket at 1-based a,   *)
(* by nesting; 0 when there is none                                        *)
MatchOf(s, a) ==
    LET cands == {b \in a + 1..Len(s) : Depth(s, b) = Depth(s, a - 1)}
    IN IF cands = {} THEN 0 ELSE CHOOSE b \in cands : \A c \in cands : b <= c

(* C3: on a bracket-balanced vector resolve_jumps returns, giving each      *)
(* JumpR at 0-based index r whose matching JumpL is at 0-based index i the  *)
(* target i + 1, that JumpL the target r + 1, and leaving every other       *)
(* instruction as it was.                                                   *)
C3_ResolvedTargets ==
    (stage \in {"resolved", "failed"} /\ Balanced(prog)) =>
        /\ stage = "resolved"
        /\ Len(ops) = Len(prog)
        /\ \A a \in 1..Len(prog) :
              IF IsJumpR(prog[a]) THEN
                  LET b == MatchOf(prog, a)
                  IN /\ ops[a] = Mk("JumpR", (b - 1) + 1)
                     /\ ops[b] = Mk("JumpL", (a - 1) + 1)
              ELSE IF IsJumpL(prog[a]) THEN IsJumpL(ops[a])
              ELSE ops[a] = prog[a]

C3_Witness ==
    /\ stage = "resolved"
    /\ \E a \in 1..Len(prog) : \E b \in a + 1..Len(prog) :
          /\ IsJumpR(prog[a]) /\ IsJumpR(prog[b])
          /\ MatchOf(prog, b) < MatchOf(prog, a)
          /\ MatchOf(prog, b) > b + 1

(* the first close bracket met with no open bracket pending (1-based), or 0 *)
FirstStrayClose(s) ==
    LET bad == {k \in 1..Len(s) : Depth(s, k) < 0}
    IN IF bad = {} THEN 0 ELSE CHOOSE k \in bad : \A j \in bad : k <= j

(* C4: resolve_jumps panics exactly on the unbalanced vectors; a close      *)
(* bracket met with nothing pending is reported by its 1-based index, and   *)
(* otherwise the 1-based index of an unmatched open bracket is reported.    *)
C4_StructuralErrors ==
    (stage \in {"resolved", "failed"}) =>
        /\ (stage = "failed") <=> ~Balanced(prog)
        /\ (stage = "failed") =>
              IF FirstStrayClose(prog) # 0
              THEN err = Panic("unmatched_close", FirstStrayClose(prog))
              ELSE /\ err.kind = "unmatched_open"
                   /\ err.pos \in 1..Len(prog)
                   /\ IsJumpR(prog[err.pos])
                   /\ MatchOf(prog, err.pos) = 0

C4_Witness ==
    /\ stage = "failed"
    /\ err.kind = "unmatched_open"
    /\ err.pos > 1
    /\ \E a \in 1..Len(prog) : IsJumpR(prog[a]) /\ MatchOf(prog, a) # 0

-----------------------------------------------------------------------------
(* Claim C5: parsing (Spec) *)

Recognised == {"+", "-", ">", "<", "[", "]", ",", ".", "#"}

Strip(s) == SelectSeq(s, LAMBDA c : c \in Recognised)

(* an instruction with its jump target put back to the placeholder *)
Unresolved(o) == IF IsJumpR(o) \/ IsJumpL(o) THEN Mk(o.op, 0) ELSE o

(* C5: the outcome of parsing a source is the outcome of parsing it with    *)
(* every unrecognised character removed; when parsing returns, it returns   *)
(* one instruction per recognised character, in source order.               *)
C5_ParseIgnoresOthers ==
    (stage # "parse") =>
        LET stripped == Strip(src)
            r == parse(stripped)
        IN IF r.err # NoErr
           THEN prog = << >> /\ (steps = 0 => stage = "failed" /\ err = r.err)
           ELSE /\ prog = r.ops
                /\ ops = prog
                /\ Len(prog) = Len(stripped)
                /\ \A k \in 1..Len(prog) :
                      <<Unresolved(prog[k])>> = try_from(stripped[k])

C5_Witness ==
    /\ stage = "exec"
    /\ Len(src) = MaxSrc
    /\ Len(prog) = 2
    /\ src[2] = "a"
    /\ prog[1] # prog[2]

-----------------------------------------------------------------------------
(* Claims C6, C7, C8: the executor of lib.rs (Spec) *)

AboutToRun(o) ==
    stage = "exec" /\ i < Len(ops) /\ steps < MaxSteps /\ At(ops, i) = o

PointerInRange == stage \in {"exec", "done", "cutoff"} => cpu.pc \in 0..RAM_SIZE - 1

MoveRStep ==
    AboutToRun(Mk("MoveR", 1)) =>
        IF cpu.pc + 1 >= RAM_SIZE
        THEN /\ stage' = "failed"
             /\ err'.kind = "move_past_last_cell"
             /\ cpu'.pc # 0
             /\ cpu'.ram = cpu.ram
        ELSE stage' = "exec" /\ cpu'.pc = cpu.pc + 1

MoveLStep ==
    AboutToRun(Mk("MoveL", 1)) =>
        IF cpu.pc - 1 < 0
        THEN /\ stage' = "failed"
             /\ err'.kind = "move_behind_first_cell"
             /\ cpu'.pc # RAM_SIZE - 1
             /\ cpu'.ram = cpu.ram
        ELSE stage' = "exec" /\ cpu'.pc = cpu.pc - 1

(* C6: while the executor runs the data pointer is within the tape; a       *)
(* MoveR that would reach the tape length, or a MoveL below 0, ends the run *)
(* with the bounds panic, the pointer not wrapped round and no cell         *)
(* touched; any other move moves the pointer by one.                        *)
C6_PointerBounds == [](PointerInRange) /\ [][MoveRStep /\ MoveLStep]_vars

C6_Witness ==
    /\ stage = "failed"
    /\ err.kind = "move_past_last_cell"
    /\ steps >= 2

(* C7: a Set executed when the input is exhausted ends the run with a       *)
(* fatal error and stores nothing in the current cell.                      *)
C7_ReadAtEofIsFatal ==
    [][(AboutToRun(Set) /\ nread >= Len(input)) =>
          (stage' = "failed" /\ cpu' = cpu)]_vars

AllCellsAreBytes == \A p \in DOMAIN cpu.ram : cpu.ram[p] \in 0..255

IncrementStep ==
    AboutToRun(Mk("Increment", 1)) =>
        /\ stage' = "exec"
        /\ Read(cpu'.ram, cpu.pc) = (IF Cell(Machine) = 255 THEN 0 ELSE Cell(Machine) + 1)

DecrementStep ==
    AboutToRun(Mk("Decrement", 1)) =>
        /\ stage' = "exec"
        /\ Read(cpu'.ram, cpu.pc) = (IF Cell(Machine) = 0 THEN 255 ELSE Cell(Machine) - 1)

(* C8: Increment and Decrement never fail and work modulo 256 (255 + 1 is   *)
(* 0, 0 - 1 is 255); every cell holds a value in 0..255 at all times.       *)
C8_WrappingArithmetic ==
    [](AllCellsAreBytes) /\ [][IncrementStep /\ DecrementStep]_vars

C8_Witness ==
    /\ stage = "exec"
    /\ i = 2
    /\ steps = 2
    /\ At(ops, 1) = Mk("Increment", 1)
    /\ cpu.pc = RAM_SIZE - 1
    /\ Read(cpu.ram, cpu.pc) = 0

-----------------------------------------------------------------------------
(* Claims C9, C10: single optimiser passes (SpecPass) *)

InRun(l, r, s, k) == s[k] = Mk(l, 1) \/ s[k] = Mk(r, 1)

RunStart(l, r, s, k) == InRun(l, r, s, k) /\ (k = 1 \/ ~InRun(l, r, s, k - 1))

(* the last position of the maximal run that starts at a *)
RunEnd(l, r, s, a) ==
    CHOOSE b \in a..Len(s) :
        /\ \A k \in a..b : InRun(l, r, s, k)
        /\ (b = Len(s) \/ ~InRun(l, r, s, b + 1))

NetOf(l, r, s, a, b) ==
    Cardinality({k \in a..b : s[k] = Mk(r, 1)})
        - Cardinality({k \in a..b : s[k] = Mk(l, 1)})

FoldedAsClaimed(l, r, before, after) ==
    /\ Len(after) = Len(before)
    /\ \A k \in 1..Len(before) :
          IF ~InRun(l, r, before, k) THEN after[k] = before[k]
          ELSE IF ~RunStart(l, r, before, k) THEN after[k] = Empty
          ELSE LET net == NetOf(l, r, before, k, RunEnd(l, r, before, k))
               IN after[k] = (IF net > 0 THEN Mk(r, net)
                              ELSE IF net < 0 THEN Mk(l, 0 - net)
                              ELSE Empty)

(* C9: fold_consecutive_ops(left, right) puts in the first slot of every    *)
(* maximal run of single-step left/right instructions right(k), left(k) or  *)
(* Empty for a net of k rights, k lefts or zero, Empty in the run's other   *)
(* slots, and changes neither the other instructions nor the length.        *)
C9_FoldRuns ==
    /\ stage = "fold_moves" => FoldedAsClaimed("MoveL", "MoveR", prog, ops)
    /\ stage = "fold_arith" => FoldedAsClaimed("Decrement", "Increment", prog, ops)

C9_Witness ==
    /\ stage = "fold_moves"
    /\ Len(prog) = MaxPassLen
    /\ prog[1] = Mk("MoveR", 1)
    /\ ops[1] = Mk("MoveL", 2)
    /\ ops[4] = Empty
    /\ prog[5] = Get
    /\ ops[5] = Get

IsLoopWindow(s, k) == k + 2 <= Len(s) /\ IsJumpR(s[k]) /\ IsJumpL(s[k + 2])

(* C10: rewrite_clear_loops turns a window JumpR, X, JumpL into Clear,      *)
(* Empty, Empty exactly when X is Decrement(1); with X a Decrement(n),      *)
(* n # 1, or an Increment, the window is left as it was.                    *)
C10_ClearOnlyDecrementByOne ==
    (stage = "clear_loops") =>
        \A k \in 1..Len(prog) :
            IsLoopWindow(prog, k) =>
                IF prog[k + 1] = Mk("Decrement", 1)
                THEN SubSeq(ops, k, k + 2) = <<Clear, Empty, Empty>>
                ELSE SubSeq(ops, k, k + 2) = SubSeq(prog, k, k + 2)


-----------------------------------------------------------------------------
(* Claim C11: remove_dead_loops (SpecPass) *)

(* an open bracket (1-based a) at the start of the vector or right after a  *)
(* close bracket                                                            *)
DeadLoopStart(s, a) == IsJumpR(s[a]) /\ (a = 1 \/ IsJumpL(s[a - 1]))

(* the slots of the loops that start there, brackets included *)
DeadSlots(s) ==
    {k \in 1..Len(s) :
        \E a \in 1..k : DeadLoopStart(s, a) /\ k <= MatchOf(s, a)}

(* C11: on a bracket-balanced vector remove_dead_loops turns into Empty     *)
(* every slot (open bracket, body, matching close bracket) of the loop that *)
(* opens at index 0 and of every loop that opens right after the close      *)
(* bracket of another loop, and changes no other slot.                      *)
C11_DeadLoopsErased ==
    (stage = "dead_loops" /\ Balanced(prog)) =>
        /\ err = NoErr
        /\ Len(ops) = Len(prog)
        /\ \A k \in 1..Len(prog) :
              ops[k] = (IF k \in DeadSlots(prog) THEN Empty ELSE prog[k])


-----------------------------------------------------------------------------
(* Claim C12: remove_trailing_ops (SpecLate) *)

HasOutput(s) == \E k \in 1..Len(s) : IsOutput(s[k])

(* 1-based index of the last Get or Debug *)
LastOutput(s) ==
    CHOOSE k \in 1..Len(s) :
        IsOutput(s[k]) /\ \A j \in (k + 1)..Len(s) : ~IsOutput(s[j])

(* the first close bracket after the last output, else the last output *)
Boundary(s) ==
    LET k == LastOutput(s)
        closes == {j \in (k + 1)..Len(s) : IsJumpL(s[j])}
    IN IF closes = {} THEN k
       ELSE CHOOSE j \in closes : \A c \in closes : j <= c

-----------------------------------------------------------------------------
(* Claim C13: the multiplication program (SpecMul) *)

(* the factors a source text of SpecMul was built from *)
FactorA == CHOOSE a \in 0..MaxFactor : \E b \in 0..MaxFactor : src = MulSrc(a, b)
FactorB == CHOOSE b \in 0..MaxFactor : src = MulSrc(FactorA, b)

(* C13: for all counts a and b, the program of a "+", "[>", b "+", "<-]>."  *)
(* on a fresh machine ends normally (no failure, within LongSteps           *)
(* instructions) and has then written exactly one output byte, of value     *)
(* a * b mod 256.                                                           *)
C13_Multiplication ==
    /\ stage # "failed"
    /\ stage = "exec" /\ i < Len(ops) => steps < LongSteps
    /\ stage = "done" => out = <<(FactorA * FactorB) % 256>>


-----------------------------------------------------------------------------
(* Claim C14: the clear loop (SpecClearFair) *)

SamePointerAndOtherCells ==
    /\ cpu'.pc = cpu.pc
    /\ \A q \in ((DOMAIN cpu.ram) \cup (DOMAIN cpu'.ram)) \ {cpu.pc} :
          Read(cpu'.ram, q) = Read(cpu.ram, q)

(* C14: from every value 0..255 of the current cell the program "[-]" ends; *)
(* when it has ended the current cell is 0; no step moves the pointer or    *)
(* changes another cell; nothing is written and the run does not fail.      *)
C14_ClearLoopTerminates ==
    /\ [](out = << >> /\ stage # "failed")
    /\ [](stage = "done" => Read(cpu.ram, cpu.pc) = 0)
    /\ [][SamePointerAndOtherCells]_vars
    /\ <>(stage = "done")

(* a run that began at 255 (it took 2 * 255 + 1 instructions) has ended at  *)
(* the last cell of the tape, its neighbour untouched                       *)
C14_Witness ==
    /\ stage = "done"
    /\ steps = 511
    /\ cpu.pc = RAM_SIZE - 1
    /\ Read(cpu.ram, cpu.pc) = 0
    /\ Read(cpu.ram, RAM_SIZE - 2) = 9


-----------------------------------------------------------------------------
(* Claim C15: the passes and bracket balance (SpecLate) *)

(* C15: every pass of the optimiser, and optimise as a whole, completes on  *)
(* a bracket-balanced vector and returns a bracket-balanced vector, so      *)
(* resolve_jumps on the result reports no unmatched bracket.                *)
C15_PassesKeepBalance ==
    ((IsPass(stage) \/ stage = "optimise") /\ Balanced(prog)) =>
        /\ err = NoErr
        /\ Balanced(ops)
        /\ resolve_jumps(ops).err = NoErr


-----------------------------------------------------------------------------
(* Claim C16: remove_empty_ops (SpecLate) *)

(* how many of the first k slots of s are not Empty *)
RECURSIVE Kept(_, _)
Kept(s, k) ==
    IF k = 0 THEN 0 ELSE Kept(s, k - 1) + (IF s[k] # Empty THEN 1 ELSE 0)

(* C16: remove_empty_ops returns the instructions of its input that are not *)
(* Empty, each once and in their order (the j-th kept instruction is the    *)
(* slot with j kept slots up to it); and what optimise returns holds no     *)
(* Empty.                                                                   *)
C16_EmptyOpsRemoved ==
    /\ stage = "empty_ops" =>
          /\ err = NoErr
          /\ Len(ops) = Kept(prog, Len(prog))
          /\ \A k \in 1..Len(prog) : prog[k] # Empty => ops[Kept(prog, k)] = prog[k]
    /\ stage = "optimise" /\ err = NoErr =>
          \A k \in 1..Len(ops) : ops[k] # Empty

(* Empty slots before, between and after two kept instructions *)
C16_Witness ==
    /\ stage = "empty_ops"
    /\ Len(prog) = MaxLateLen
    /\ prog[1] = Empty /\ prog[3] = Empty /\ prog[5] = Empty
    /\ ops = <<prog[2], prog[4]>>
    /\ prog[2] # prog[4]


-----------------------------------------------------------------------------
(* Claim C17: resolve computes the targets after compaction (SpecFoldResolve) *)

(* C17: for every bracket-balanced input resolve returns, and in the vector *)
(* it returns each JumpR at 0-based index r has a target t with             *)
(* 1 <= t <= length, the instruction at index t - 1 is the JumpL matching   *)
(* it by nesting in the returned vector, that JumpL has target r + 1, and   *)
(* no instruction is Empty.                                                 *)
C17_TargetsAfterCompaction ==
    (stage \in {"resolved", "failed"} /\ Balanced(prog)) =>
        /\ stage = "resolved"
        /\ \A k \in 1..Len(ops) : ops[k] # Empty
        /\ \A r \in 0..Len(ops) - 1 :
              IsJumpR(At(ops, r)) =>
                  LET t == At(ops, r).n
                  IN /\ 1 <= t /\ t <= Len(ops)
                     /\ IsJumpL(At(ops, t - 1))
                     /\ MatchOf(ops, r + 1) = (t - 1) + 1
                     /\ At(ops, t - 1).n = r + 1

(* a loop behind a run that folded to nothing: both brackets moved down by  *)
(* the two dropped slots, and their targets are indices of the short vector *)
C17_Witness ==
    /\ stage = "resolved"
    /\ Len(prog) = MaxPassLen
    /\ prog[1] = Mk("MoveR", 1) /\ prog[2] = Mk("MoveL", 1)
    /\ IsJumpR(prog[3]) /\ IsJumpL(prog[5])
    /\ ops = <<Mk("JumpR", 3), prog[4], Mk("JumpL", 1)>>


-----------------------------------------------------------------------------
(* Claim C18: the instruction index (Spec) *)

IndexInRange == stage \in {"exec", "done", "cutoff"} => i \in 0..Len(ops)

(* the executor is about to run the instruction at i *)
StepDue == stage = "exec" /\ i < Len(ops) /\ steps < MaxSteps

(* a step that does not panic: the index goes to a target only from a JumpR *)
(* on a zero cell or a JumpL on a non-zero cell, and one further otherwise  *)
IndexStep ==
    (StepDue /\ stage' = "exec") =>
        LET o == At(ops, i)
            cell == Read(cpu.ram, cpu.pc)
        IN IF IsJumpR(o) /\ cell = 0 THEN i' = o.n
           ELSE IF IsJumpL(o) /\ cell # 0 THEN i' = o.n
           ELSE i' = i + 1

(* a run ends normally from the index behind the last instruction, and from *)
(* nowhere else (a panic is the other way out, see C6)                      *)
EndStep ==
    /\ stage = "exec" /\ stage' = "done" => i = Len(ops) /\ i' = i
    /\ stage = "exec" /\ i = Len(ops) => stage' = "done"
    /\ StepDue => stage' \in {"exec", "failed"}

(* C18: while a resolved program runs the instruction index is in           *)
(* 0..length; JumpR sets it to its target only when the current cell is 0,  *)
(* JumpL only when the cell is not 0, every other step (a branch not taken  *)
(* included) adds exactly 1, and the run ends exactly when the index equals *)
(* the length.                                                              *)
C18_InstructionIndex == [](IndexInRange) /\ [][IndexStep /\ EndStep]_vars

(* `[-]` begun on a cell holding 255: the JumpL has jumped back twice *)
C18_Witness ==
    /\ stage = "exec"
    /\ ops = <<Mk("JumpR", 3), Mk("Decrement", 1), Mk("JumpL", 1)>>
    /\ steps = 5
    /\ i = 1
    /\ Read(cpu.ram, cpu.pc) = 253


-----------------------------------------------------------------------------
(* Claim C19: unbalanced programs (SpecOpt) *)

(* C19: on a program whose brackets are not balanced optimise completes     *)
(* (no pass fails with an access out of range), resolve_jumps then reports  *)
(* an unmatched bracket, and so the program is never executed.              *)
C19_UnbalancedNeverRuns ==
    ~Balanced(prog) =>
        /\ stage \notin {"exec", "done", "cutoff"}
        /\ stage = "failed" => err.kind \in {"unmatched_open", "unmatched_close"}


-----------------------------------------------------------------------------
(* Claim C20: where optimise puts a Clear (SpecOptimise) *)

ClearCount(s) == Cardinality({k \in 1..Len(s) : s[k] = Clear})

(* right after rewrite_clear_loops (the folds keep every slot in place):    *)
(* a Clear stands only where the source has "[", one "-", "]"               *)
ClearOnlyForSingleDecrement ==
    stage = "dead_loops" =>
        \A k \in 1..Len(ops) :
            ops[k] = Clear =>
                /\ k + 2 <= Len(prog)
                /\ prog[k] = Mk("JumpR", 0)
                /\ prog[k + 1] = Mk("Decrement", 1)
                /\ prog[k + 2] = Mk("JumpL", 0)

(* every pass but rewrite_clear_loops adds no Clear *)
NoOtherPassAddsClear == stage # "clear_loops" => ClearCount(ops') <= ClearCount(ops)

(* C20: in optimise on parser output (every count 1) a Clear is produced    *)
(* only by rewrite_clear_loops and only in place of a loop whose source     *)
(* body is exactly one "-": a loop whose body folds to Decrement(n), n > 1, *)
(* or has more than one instruction, is not turned into Clear.              *)
C20_ClearOnlySingleDecrement ==
    [](ClearOnlyForSingleDecrement) /\ [][NoOtherPassAddsClear]_vars

(* "--[-]": the pair folded to Decrement(2), Empty; the loop behind it, its  *)
(* body one "-", was rewritten to Clear, Empty, Empty                       *)
C20_Witness ==
    /\ stage = "dead_loops"
    /\ Len(prog) = MaxOptLen
    /\ ops[3] = Clear /\ ops[4] = Empty /\ ops[5] = Empty
    /\ ops[1] = Mk("Decrement", 2)


-----------------------------------------------------------------------------
(* Claim C21: the REPL keeps one machine; `\reset` (SpecRepl) *)

(* the text of the line the REPL is about to read, without its newline *)
EnteredText ==
    LET line == read_line(input, nread)
    IN IF line # << >> /\ line[Len(line)] = 10
       THEN SubSeq(line, 1, Len(line) - 1)
       ELSE line

HasLine == stage = "prompt" /\ nread < Len(input)

(* the machine a line starts on is the one the line before left *)
MachineCarriedOver ==
    /\ stage = "exec" /\ stage' = "prompt" => cpu' = cpu
    /\ HasLine /\ EnteredText # ResetText => cpu' = cpu

(* the reset line gives a fresh machine and runs no program: the REPL goes  *)
(* straight to its next prompt, having printed nothing but the prompt       *)
ResetLineResets ==
    HasLine /\ EnteredText = ResetText =>
        /\ cpu' = CpuDefault
        /\ stage' = "prompt"
        /\ out' = out \o Prompt
        /\ ops' = ops

(* C21: the REPL uses one machine for all its lines, so each line starts on *)
(* the tape and pointer the line before left; a line that is the reset      *)
(* command \reset puts the machine back to an all-zero tape with the        *)
(* pointer at 0 and runs no program.                                        *)
C21_ReplMachineAndReset == [][MachineCarriedOver /\ ResetLineResets]_vars


-----------------------------------------------------------------------------
(* Claim C22: Debug changes nothing (SpecInspect) *)

InspectDue == StepDue /\ At(ops, i) = Debug

(* C22: executing Debug changes no tape cell and not the data pointer,      *)
(* reads no input, and execution goes on at the next instruction index; at  *)
(* every pointer position, those within the half-width of either end of    *)
(* the tape included.                                                       *)
C22_InspectFrame ==
    [][InspectDue =>
          /\ cpu' = cpu
          /\ nread' = nread
          /\ i' = i + 1
          /\ stage' = "exec"]_vars


-----------------------------------------------------------------------------
(* Claim C23: the window Debug prints (SpecInspect) *)

(* what a step printed *)
Printed == SubSeq(out', Len(out) + 1, Len(out'))

(* the text between "MEM: [" and "]" of the first printed line *)
MemInner(t) ==
    LET nl == CHOOSE k \in 1..Len(t) : t[k] = 10 /\ \A j \in 1..k - 1 : t[j] # 10
    IN SubSeq(t, 7, nl - 2)

LeftEllipsis(inner) == Len(inner) >= 3 /\ SubSeq(inner, 1, 3) = Ellipsis

RightEllipsis(inner) ==
    Len(inner) >= 3 /\ SubSeq(inner, Len(inner) - 2, Len(inner)) = Ellipsis

(* the text without its ellipses *)
MemBody(inner) ==
    SubSeq(inner, IF LeftEllipsis(inner) THEN 4 ELSE 1,
                  IF RightEllipsis(inner) THEN Len(inner) - 3 ELSE Len(inner))

(* the numbers of a text of decimal numbers separated by single spaces *)
RECURSIVE ReadNumbers(_, _, _)
ReadNumbers(t, cur, any) ==
    IF t = << >> THEN (IF any THEN <<cur>> ELSE << >>)
    ELSE IF Head(t) = 32 THEN <<cur>> \o ReadNumbers(Tail(t), 0, TRUE)
    ELSE ReadNumbers(Tail(t), 10 * cur + (Head(t) - 48), TRUE)

(* the half-width w, and the window [max(0, p - w), min(RAM_SIZE, p + w + 1)) *)
HalfWidth == debug_range(debug_env)
ClippedLeft == ~usize_le(HalfWidth, usize(cpu.pc))
ClippedRight == ~usize_le(HalfWidth, usize(RAM_SIZE - cpu.pc - 1))
WindowLo == IF ClippedLeft THEN 0 ELSE cpu.pc - usize_small(HalfWidth)
WindowHi == IF ClippedRight THEN RAM_SIZE ELSE cpu.pc + usize_small(HalfWidth) + 1

(* C23: with the pointer at p and the half-width w, Debug prints exactly    *)
(* the cells with index in [max(0, p - w), min(RAM_SIZE, p + w + 1)), and   *)
(* an ellipsis on a side exactly when the window is clipped by the end of   *)
(* the tape on that side.                                                   *)
C23_InspectWindow ==
    [][InspectDue =>
          /\ stage' = "exec"
          /\ LET inner == MemInner(Printed)
             IN /\ ReadNumbers(MemBody(inner), 0, FALSE)
                       = [k \in 1..WindowHi - WindowLo |-> Read(cpu.ram, WindowLo + k - 1)]
                /\ LeftEllipsis(inner) <=> ClippedLeft
                /\ RightEllipsis(inner) <=> ClippedRight]_vars

====
